---- MODULE Spec2Model ----
(***************************************************************************)
(* Model of src/app.py: the "Undervalued Growth Stocks Screener".          *)
(*                                                                         *)
(* One run of the script is: resolve the ticker universe, then for each    *)
(* ticker fetch a metrics snapshot and screen it, then score, sort and     *)
(* report the survivors.                                                   *)
(*                                                                         *)
(* Numbers.  Every metric, threshold and price is an integer number of     *)
(* hundredths (18 is 1800, 2.8 is 280, 0.5 is 50).  A provider ratio r is  *)
(* turned into a percentage by r * 100, as in the source.  A Value Score   *)
(* is kept in thousandths, so that the weights 0.4 and 0.3 become 4 and 3. *)
(* Arithmetic is exact; binary floating point rounding is not modelled.    *)
(*                                                                         *)
(* Python values.  A field of the provider's payload is None, not-a-number,*)
(* a non-empty non-numeric string, or a number.                            *)
(***************************************************************************)
EXTENDS Integers, Sequences, FiniteSets

VARIABLES
    pc,              \* position of the script
    run_button,      \* st.sidebar.button("Run Screener")
    max_pe, max_forward_pe, max_peg, min_roe, min_upside,   \* sliders
    requests_made,   \* number of GETs issued for the universe page
    tickers,         \* the universe, in page order
    i,               \* number of loop iterations completed
    fetchLog,        \* tickers handed to fetch_stock_metrics, in call order
    snapshots,       \* what fetch_stock_metrics returned, in call order
    info,            \* provider payload of the snapshot under test
    data,            \* the loop's current `data`
    screen,          \* the loop's current undervalued / growth / quality
    results,         \* the loop's `results` list
    status,          \* the status line: <<ticker, k, N>>
    progress,        \* the progress bar: <<k, N>>
    df,              \* the scored, sorted frame
    found,           \* the count in st.success, -1 when not shown
    table,           \* tickers of the rows of st.dataframe
    csv,             \* rows of the export, <<ticker, score>> each
    warning,         \* st.warning("No stocks matched ...") was shown
    exception        \* the uncaught exception that ended the run, or "none"

vars == <<pc, run_button, max_pe, max_forward_pe, max_peg, min_roe, min_upside,
          requests_made, tickers, i, fetchLog, snapshots, info, data, screen,
          results, status, progress, df, found, table, csv, warning, exception>>

sliders == <<max_pe, max_forward_pe, max_peg, min_roe, min_upside>>
outputs == <<df, found, table, csv, warning>>

-----------------------------------------------------------------------------
(* Bounds *)

MaxTickers == 3

-----------------------------------------------------------------------------
(* Python values *)

None == [k |-> "None", v |-> 0]
NaN  == [k |-> "nan",  v |-> 0]
Str  == [k |-> "str",  v |-> 0]
Num(n) == [k |-> "num", v |-> n]

\* bool(x): None and 0 are falsy; nan, a non-empty string and any other
\* number are truthy.
Truthy(x) ==
    CASE x.k = "None" -> FALSE
      [] x.k = "nan"  -> TRUE
      [] x.k = "str"  -> TRUE
      [] x.k = "num"  -> x.v # 0

\* x < t for a numeric t: a comparison with nan is False, a comparison of a
\* string or None with a number raises TypeError.
Less(x, t) ==
    CASE x.k = "num" -> IF x.v < t THEN "True" ELSE "False"
      [] x.k = "nan" -> "False"
      [] OTHER       -> "TypeError"

\* x > t, likewise.
Greater(x, t) ==
    CASE x.k = "num" -> IF x.v > t THEN "True" ELSE "False"
      [] x.k = "nan" -> "False"
      [] OTHER       -> "TypeError"

\* (x and <comparison>): the comparison is evaluated only for a truthy x.
AndThen(x, cmp) == IF Truthy(x) THEN cmp ELSE "False"

\* a or b or c, left to right, stopping at the first truthy operand; an
\* operand that raises ends the evaluation.
Or3(a, b, c) == IF a # "False" THEN a ELSE IF b # "False" THEN b ELSE c

\* a and b and c, left to right, stopping at the first falsy operand.
And3(a, b, c) == IF a # "True" THEN a ELSE IF b # "True" THEN b ELSE c

-----------------------------------------------------------------------------
(* fetch_stock_metrics *)

\* info.get(ratio) * 100 if info.get(ratio) else np.nan
\* (a string times 100 is a longer string)
Percent(x) ==
    IF Truthy(x)
    THEN IF x.k = "num" THEN Num(x.v * 100) ELSE x
    ELSE NaN

\* target - current raises TypeError when either is a string.
UpsideRaises(p) ==
    /\ Truthy(p.targetMeanPrice) /\ Truthy(p.currentPrice)
    /\ (p.targetMeanPrice.k = "str" \/ p.currentPrice.k = "str")

\* (target - current) / current * 100 if target and current else np.nan
Upside(p) ==
    IF Truthy(p.targetMeanPrice) /\ Truthy(p.currentPrice)
    THEN IF p.targetMeanPrice.k = "num" /\ p.currentPrice.k = "num"
         THEN Num(((p.targetMeanPrice.v - p.currentPrice.v) * 100 * 100)
                    \div p.currentPrice.v)
         ELSE NaN
    ELSE NaN

NoData == [some |-> FALSE]

\* The whole body is inside try / except: any exception yields None.
\* Company and Sector are strings no later step inspects; they are left out.
fetch_stock_metrics(ticker, p) ==
    IF p.raises \/ UpsideRaises(p)
    THEN NoData
    ELSE [some           |-> TRUE,
          Ticker         |-> ticker,
          TrailingPE     |-> p.trailingPE,
          ForwardPE      |-> p.forwardPE,
          PEGRatio       |-> p.pegRatio,
          ROE            |-> Percent(p.returnOnEquity),
          DebtEquity     |-> p.debtToEquity,
          EarningsGrowth |-> Percent(p.earningsGrowth),
          RevenueGrowth  |-> Percent(p.revenueGrowth),
          RecScore       |-> p.recommendationMean,
          Upside         |-> Upside(p)]

-----------------------------------------------------------------------------
(* The three predicates of the scan loop.  Each is "True", "False" or     *)
(* "TypeError" (the expression raised).                                    *)

EarningsGrowthMin == 800
RevenueGrowthMin  == 500
DebtEquityMax     == 15000
RecScoreMax       == 280

TrailingClause(d) == AndThen(d.TrailingPE, Less(d.TrailingPE, max_pe))
ForwardClause(d)  == AndThen(d.ForwardPE, Less(d.ForwardPE, max_forward_pe))
PegClause(d)      == AndThen(d.PEGRatio, Less(d.PEGRatio, max_peg))

undervaluedAll(d) == And3(TrailingClause(d), ForwardClause(d), PegClause(d))

undervalued(d) == Or3(TrailingClause(d), ForwardClause(d), PegClause(d))

EarningsClause(d) ==
    AndThen(d.EarningsGrowth, Greater(d.EarningsGrowth, EarningsGrowthMin))
RevenueClause(d) ==
    AndThen(d.RevenueGrowth, Greater(d.RevenueGrowth, RevenueGrowthMin))
UpsideClause(d) == AndThen(d.Upside, Greater(d.Upside, min_upside))

growth(d) == Or3(EarningsClause(d), RevenueClause(d), UpsideClause(d))

RoeClause(d)  == AndThen(d.ROE, Greater(d.ROE, min_roe))
DebtClause(d) == AndThen(d.DebtEquity, Less(d.DebtEquity, DebtEquityMax))
RecClause(d)  == AndThen(d.RecScore, Less(d.RecScore, RecScoreMax))

qualityAny(d) == Or3(RoeClause(d), DebtClause(d), RecClause(d))

quality(d) == And3(RoeClause(d), DebtClause(d), RecClause(d))

\* The three assignments run in order; one that raises ends the run before
\* the next is evaluated.
NotScreened == [undervalued |-> "unset", growth |-> "unset", quality |-> "unset"]

Screen(d) ==
    IF undervalued(d) = "TypeError"
    THEN [NotScreened EXCEPT !.undervalued = "TypeError"]
    ELSE IF growth(d) = "TypeError"
    THEN [NotScreened EXCEPT !.undervalued = undervalued(d),
                             !.growth = "TypeError"]
    ELSE [undervalued |-> undervalued(d), growth |-> growth(d),
          quality |-> quality(d)]

ScreenRaises(s) ==
    "TypeError" \in {s.undervalued, s.growth, s.quality}

KeepAny(s) == "True" \in {s.undervalued, s.growth, s.quality}

\* if undervalued and growth and quality:
Keep(s) == s.undervalued = "True" /\ s.growth = "True" /\ s.quality = "True"

-----------------------------------------------------------------------------
(* Value Score and the sort *)

PegSentinel    == 99900
PeSentinel     == 99900
UpsideSentinel == 0

\* Series.fillna(s): None and nan are both missing values.
fillna(x, s) == IF x.k \in {"None", "nan"} THEN Num(s) ELSE x

\* A string left in an object column cannot be multiplied by a float.
ScoreRaises(d) == d.PEGRatio.k = "str" \/ d.TrailingPE.k = "str"

ValueScoreZeroFill(d) ==
    4 * fillna(d.PEGRatio, 0).v
    + 3 * fillna(d.TrailingPE, 0).v
    - 3 * fillna(d.Upside, UpsideSentinel).v

\* PEG * 0.4 + Trailing P/E * 0.3 - Upside * 0.3, in thousandths.
ValueScore(d) ==
    4 * fillna(d.PEGRatio, PegSentinel).v
    + 3 * fillna(d.TrailingPE, PeSentinel).v
    - 3 * fillna(d.Upside, UpsideSentinel).v

Scored(rows) ==
    [k \in 1..Len(rows) |-> [Ticker |-> rows[k].Ticker,
                             row |-> rows[k],
                             ValueScore |-> ValueScore(rows[k])]]

Perms(n) ==
    {p \in [1..n -> 1..n] : \A a, b \in 1..n : a # b => p[a] # p[b]}

\* df.sort_values("Value Score") with the default kind="quicksort", which
\* is not a stable sort: the result is ascending, and rows of equal score
\* come out in whatever order the sort of the build leaves them.
sort_values(rows) ==
    {[k \in 1..Len(rows) |-> rows[p[k]]] : p \in
        {q \in Perms(Len(rows)) :
            \A a \in 1..(Len(rows) - 1) :
                rows[q[a]].ValueScore <= rows[q[a + 1]].ValueScore}}

\* df.to_csv(index=False): one text row per row of the frame.
to_csv(rows) == [k \in 1..Len(rows) |-> <<rows[k].Ticker, rows[k].ValueScore>>]

-----------------------------------------------------------------------------
(* Inputs *)

MaxPeValues        == {500, 1800}
MaxForwardPeValues == {500, 1500}
MaxPegValues       == {50, 120}
MinRoeValues       == {0, 800}
MinUpsideValues    == {0, 1500}

Info(tpe, fpe, peg, roe, de, eg, rg, rec, tgt, cur) ==
    [raises |-> FALSE, trailingPE |-> tpe, forwardPE |-> fpe, pegRatio |-> peg,
     returnOnEquity |-> roe, debtToEquity |-> de, earningsGrowth |-> eg,
     revenueGrowth |-> rg, recommendationMean |-> rec,
     targetMeanPrice |-> tgt, currentPrice |-> cur]

\* An empty payload: every key missing.
EmptyInfo == Info(None, None, None, None, None, None, None, None, None, None)
\* yf.Ticker(ticker).info raised.
RaisingInfo == [EmptyInfo EXCEPT !.raises = TRUE]
\* Cheap on trailing P/E, growing, sound; no PEG, no price target.
GoodInfo ==
    Info(Num(1200), None, None, Num(15), Num(5000), Num(10), None, Num(200),
         None, None)

\* The payloads the provider answers with during a scan.
ProviderInfos ==
    { GoodInfo,
      [GoodInfo EXCEPT !.pegRatio = Num(90), !.targetMeanPrice = Num(125),
                       !.currentPrice = Num(100)],
      [GoodInfo EXCEPT !.trailingPE = None, !.forwardPE = Num(400)],
      EmptyInfo,
      [GoodInfo EXCEPT !.pegRatio = Num(90), !.returnOnEquity = Num(5)],
      [GoodInfo EXCEPT !.debtToEquity = Num(0)],
      [GoodInfo EXCEPT !.earningsGrowth = Num(4)],
      RaisingInfo,
      [GoodInfo EXCEPT !.trailingPE = Str],
      [GoodInfo EXCEPT !.pegRatio = Str],
      [GoodInfo EXCEPT !.targetMeanPrice = Str, !.currentPrice = Num(100)] }

\* The ways load_sp500_tickers ends.
LoadErrors == {"ConnectionError", "HTTPError", "ValueError", "KeyError"}
LoadOutcomes == {"ok"} \cup LoadErrors

-----------------------------------------------------------------------------
(* The run *)

InitSliders ==
    /\ max_pe \in MaxPeValues
    /\ max_forward_pe \in MaxForwardPeValues
    /\ max_peg \in MaxPegValues
    /\ min_roe \in MinRoeValues
    /\ min_upside \in MinUpsideValues

InitRest ==
    /\ requests_made = 0
    /\ tickers = <<>>
    /\ i = 0
    /\ fetchLog = <<>>
    /\ snapshots = <<>>
    /\ data = NoData
    /\ screen = NotScreened
    /\ results = <<>>
    /\ status = <<>>
    /\ progress = <<>>
    /\ df = <<>>
    /\ found = -1
    /\ table = <<>>
    /\ csv = <<>>
    /\ warning = FALSE
    /\ exception = "none"

Init ==
    /\ pc = "start"
    /\ run_button \in BOOLEAN
    /\ InitSliders
    /\ info = EmptyInfo
    /\ InitRest

LoadUniverseSwallow ==
    /\ pc = "start"
    /\ run_button
    /\ requests_made' = requests_made + 1
    /\ \E o \in LoadOutcomes :
         IF o = "ok"
         THEN /\ \E n \in 0..MaxTickers : tickers' = [k \in 1..n |-> k]
              /\ pc' = "scanning"
              /\ exception' = exception
         ELSE /\ tickers' = <<>>
              /\ pc' = "scanning"
              /\ exception' = o
    /\ UNCHANGED <<run_button, sliders, i, fetchLog, snapshots, info, data,
                   screen, results, status, progress, outputs>>

\* tickers = load_sp500_tickers(): one GET, raise_for_status, read_html,
\* tables[0]["Symbol"]; nothing catches what it raises.
LoadUniverse ==
    /\ pc = "start"
    /\ run_button
    /\ requests_made' = requests_made + 1
    /\ \E o \in LoadOutcomes :
         IF o = "ok"
         THEN /\ \E n \in 0..MaxTickers : tickers' = [k \in 1..n |-> k]
              /\ pc' = "scanning"
              /\ exception' = exception
         ELSE /\ tickers' = tickers
              /\ pc' = "failed"
              /\ exception' = o
    /\ UNCHANGED <<run_button, sliders, i, fetchLog, snapshots, info, data,
                   screen, results, status, progress, outputs>>

\* One iteration of the scan loop.
ScanTicker ==
    /\ pc = "scanning"
    /\ i < Len(tickers)
    /\ \E p \in ProviderInfos :
         LET t == tickers[i + 1]
             d == fetch_stock_metrics(t, p)
             s == IF d.some THEN Screen(d) ELSE NotScreened
         IN  /\ status' = <<t, i + 1, Len(tickers)>>
             /\ fetchLog' = Append(fetchLog, t)
             /\ snapshots' = Append(snapshots, d)
             /\ data' = d
             /\ screen' = s
             /\ IF ScreenRaises(s)
                THEN /\ pc' = "failed"
                     /\ exception' = "TypeError"
                     /\ UNCHANGED <<results, i, progress>>
                ELSE /\ results' = IF d.some /\ Keep(s)
                                   THEN Append(results, d)
                                   ELSE results
                     /\ i' = i + 1
                     /\ progress' = <<i + 1, Len(tickers)>>
                     /\ UNCHANGED <<pc, exception>>
    /\ UNCHANGED <<run_button, sliders, requests_made, tickers, info, outputs>>

\* Everything after the loop: frame, score, sort, summary, table, export,
\* or the warning.
Report ==
    /\ pc = "scanning"
    /\ i = Len(tickers)
    /\ IF results = <<>>
       THEN /\ warning' = TRUE
            /\ pc' = "done"
            /\ UNCHANGED <<df, found, table, csv, exception>>
       ELSE IF \E k \in 1..Len(results) : ScoreRaises(results[k])
       THEN /\ pc' = "failed"
            /\ exception' = "TypeError"
            /\ UNCHANGED outputs
       ELSE /\ df' \in sort_values(Scored(results))
            /\ found' = Len(df')
            /\ table' = [k \in 1..Len(df') |-> df'[k].Ticker]
            /\ csv' = to_csv(df')
            /\ pc' = "done"
            /\ UNCHANGED <<warning, exception>>
    /\ UNCHANGED <<run_button, sliders, requests_made, tickers, i, fetchLog,
                   snapshots, info, data, screen, results, status, progress>>

Next == LoadUniverse \/ ScanTicker \/ Report

Spec == Init /\ [][Next]_vars

-----------------------------------------------------------------------------
(* The fetcher and the predicates on their own: one payload is drawn, the  *)
(* fetcher is applied to it, then the three predicates to its snapshot.    *)

PeValues     == {None, NaN, Str, Num(0), Num(1000), Num(4000)}
PegValues    == {None, NaN, Str, Num(0), Num(90), Num(500)}
RatioValues  == {None, NaN, Str, Num(0), Num(4), Num(15)}
DebtValues   == {None, NaN, Str, Num(0), Num(5000), Num(20000)}
RecValues    == {None, NaN, Str, Num(0), Num(200), Num(350)}
TargetValues == {None, Str, Num(0), Num(100), Num(125)}
PriceValues  == {None, Num(0), Num(100)}

\* Slider positions: lowest, default and highest.
MaxPeRange        == {500, 1800, 3000}
MaxForwardPeRange == {500, 1500, 3000}
MaxPegRange       == {50, 120, 300}
MinRoeRange       == {0, 800, 3000}
MinUpsideRange    == {0, 1500, 5000}

\* Every combination of the fields of one predicate, the rest of the
\* payload being either all good or all missing.
ScreenInfos ==
    UNION { { [b EXCEPT !.trailingPE = x, !.forwardPE = y, !.pegRatio = z] :
                x \in PeValues, y \in PeValues, z \in PegValues }
            \cup
            { [b EXCEPT !.earningsGrowth = x, !.revenueGrowth = y,
                        !.targetMeanPrice = z, !.currentPrice = w] :
                x \in RatioValues, y \in RatioValues, z \in TargetValues,
                w \in PriceValues }
            \cup
            { [b EXCEPT !.returnOnEquity = x, !.debtToEquity = y,
                        !.recommendationMean = z] :
                x \in RatioValues, y \in DebtValues, z \in RecValues }
            : b \in {GoodInfo, EmptyInfo} }
    \cup {RaisingInfo}

InitScreen ==
    /\ pc = "fetch"
    /\ run_button = TRUE
    /\ max_pe \in MaxPeRange
    /\ max_forward_pe \in MaxForwardPeRange
    /\ max_peg \in MaxPegRange
    /\ min_roe \in MinRoeRange
    /\ min_upside \in MinUpsideRange
    /\ info \in ScreenInfos
    /\ InitRest

\* data = fetch_stock_metrics(ticker); if data: ...
FetchOne ==
    /\ pc = "fetch"
    /\ data' = fetch_stock_metrics(1, info)
    /\ pc' = IF data'.some THEN "screen" ELSE "skipped"
    /\ UNCHANGED <<run_button, sliders, requests_made, tickers, i, fetchLog,
                   snapshots, info, screen, results, status, progress,
                   outputs, exception>>

\* undervalued = ...; growth = ...; quality = ...
ScreenOne ==
    /\ pc = "screen"
    /\ screen' = Screen(data)
    /\ pc' = "screened"
    /\ exception' = IF ScreenRaises(screen') THEN "TypeError" ELSE exception
    /\ UNCHANGED <<run_button, sliders, requests_made, tickers, i, fetchLog,
                   snapshots, info, data, results, status, progress, outputs>>

NextScreen == FetchOne \/ ScreenOne

SpecScreen == InitScreen /\ [][NextScreen]_vars

-----------------------------------------------------------------------------
(* Properties *)

Absent(x) == x.k \in {"None", "nan"}

\* The run resolved its universe and has stopped.
Stopped == pc \in {"done", "failed"} /\ exception \notin LoadErrors

TickersOf(rows) == {rows[k].Ticker : k \in 1..Len(rows)}

\* C1: whatever each symbol's fetch does (raises, empty payload, a field
\* holding a non-numeric value), a run that resolved its universe stops only
\* after the last ticker, and every record collected is in the final output.
C1_FailureIsolation ==
    Stopped =>
        /\ i = Len(tickers)
        /\ \A r \in TickersOf(results) : \E k \in 1..Len(csv) : csv[k][1] = r

\* C2: after i tickers the results are exactly, in universe order, the
\* snapshots of those i tickers for which undervalued, growth and quality
\* all hold; a ticker with no snapshot or a false predicate is not there.
PassesAll(d) ==
    /\ d.some
    /\ undervalued(d) = "True"
    /\ growth(d) = "True"
    /\ quality(d) = "True"

C2_ScreeningInvariant ==
    /\ i <= Len(snapshots)
    /\ results = SelectSeq(SubSeq(snapshots, 1, i), PassesAll)
    /\ \A k \in 1..Len(snapshots) :
         ~PassesAll(snapshots[k]) => tickers[k] \notin TickersOf(results)

C2_Witness ==
    /\ i = Len(tickers)
    /\ Len(results) >= 1
    /\ Len(results) < i
    /\ \E k \in 1..i : ~snapshots[k].some
    /\ \E k \in 1..i : snapshots[k].some /\ quality(snapshots[k]) = "False"

\* C3: a field that is present and zero counts as present: debt/equity 0
\* satisfies its clause of quality, a trailing P/E, forward P/E or PEG of 0
\* satisfies its clause of undervalued, and a provider ratio of 0 for ROE,
\* earnings growth or revenue growth reaches the snapshot as the value 0.
C3_ZeroIsPresent ==
    (pc \in {"screen", "screened"}) =>
        /\ data.DebtEquity = Num(0) => DebtClause(data) = "True"
        /\ data.TrailingPE = Num(0) => TrailingClause(data) = "True"
        /\ data.ForwardPE = Num(0) => ForwardClause(data) = "True"
        /\ data.PEGRatio = Num(0) => PegClause(data) = "True"
        /\ info.returnOnEquity = Num(0) => data.ROE = Num(0)
        /\ info.earningsGrowth = Num(0) => data.EarningsGrowth = Num(0)
        /\ info.revenueGrowth = Num(0) => data.RevenueGrowth = Num(0)

\* C4: an absent field satisfies no clause: a snapshot whose screened fields
\* are all absent (None or nan) is not kept, and neither is one in which
\* ROE %, debt/equity or the recommendation score is absent.
AllAbsent(d) ==
    \A x \in {d.TrailingPE, d.ForwardPE, d.PEGRatio, d.ROE, d.DebtEquity,
              d.EarningsGrowth, d.RevenueGrowth, d.RecScore, d.Upside} :
        Absent(x)

C4_AbsentNeverPasses ==
    (pc = "screened") =>
        /\ AllAbsent(data) => ~Keep(screen)
        /\ (Absent(data.ROE) \/ Absent(data.DebtEquity) \/ Absent(data.RecScore))
              => ~Keep(screen)

C4_Witness ==
    /\ pc = "screened"
    /\ Absent(data.DebtEquity)
    /\ screen.undervalued = "True"
    /\ screen.growth = "True"
    /\ RoeClause(data) = "True"
    /\ RecClause(data) = "True"

\* C5: the final rows are in ascending Value Score order, and rows of equal
\* score are in the order their tickers were enumerated from the universe.
C5_AscendingStable ==
    (pc = "done") =>
        \A a, b \in 1..Len(df) :
            a < b =>
                /\ df[a].ValueScore <= df[b].ValueScore
                /\ df[a].ValueScore = df[b].ValueScore
                      => df[a].Ticker < df[b].Ticker

\* C6: the ranked rows are the kept records, none removed and none added,
\* each with Value Score PEG * 0.4 + trailing P/E * 0.3 - upside * 0.3 where
\* an absent PEG or trailing P/E counts 999 and an absent upside counts 0.
ExpectedScore(r) ==
    4 * (IF Absent(r.PEGRatio) THEN 99900 ELSE r.PEGRatio.v)
    + 3 * (IF Absent(r.TrailingPE) THEN 99900 ELSE r.TrailingPE.v)
    - 3 * (IF Absent(r.Upside) THEN 0 ELSE r.Upside.v)

C6_ScoreKeepsEveryRecord ==
    (pc = "done" /\ results # <<>>) =>
        /\ Len(df) = Len(results)
        /\ TickersOf(df) = TickersOf(results)
        /\ Cardinality(TickersOf(df)) = Len(df)
        /\ \A k \in 1..Len(results) : \E j \in 1..Len(df) :
             /\ df[j].row = results[k]
             /\ df[j].ValueScore = ExpectedScore(results[k])
             /\ (Absent(results[k].PEGRatio) /\ Absent(results[k].TrailingPE))
                   => df[j].ValueScore =
                        4 * 99900 + 3 * 99900
                        - 3 * (IF Absent(results[k].Upside) THEN 0
                               ELSE results[k].Upside.v)

C6_Witness ==
    /\ pc = "done"
    /\ Len(df) >= 2
    /\ \E k \in 1..Len(results) :
         Absent(results[k].PEGRatio) /\ Absent(results[k].TrailingPE)
    /\ \E k \in 1..Len(results) :
         ~Absent(results[k].PEGRatio) /\ ~Absent(results[k].Upside)

\* C7: when the universe cannot be loaded, the error ends the run after a
\* single request: no ticker is fetched, and no summary, table, export or
\* "no matches" warning is produced.
C7_UniverseFailureIsFatal ==
    (exception \in LoadErrors) =>
        /\ pc = "failed"
        /\ requests_made = 1
        /\ fetchLog = <<>>
        /\ df = <<>> /\ found = -1 /\ table = <<>> /\ csv = <<>>
        /\ ~warning

C7_Witness == pc = "failed" /\ exception = "HTTPError" /\ requests_made = 1

\* C8: a run that resolved its universe ends in one of two ways: with no
\* record kept, the warning and no exception, table or export; otherwise a
\* summary counting the rows and an export with one row per kept ticker,
\* and no warning.
C8_TerminalOutcome ==
    Stopped =>
        IF results = <<>>
        THEN /\ warning /\ exception = "none"
             /\ table = <<>> /\ csv = <<>> /\ found = -1
        ELSE /\ ~warning
             /\ found = Len(results)
             /\ Len(csv) = Len(results)
             /\ {csv[k][1] : k \in 1..Len(csv)} = TickersOf(results)

\* C9: with a universe of N tickers the fetcher is called once per ticker,
\* in universe order, the progress after the i-th ticker reads i of N, and
\* the run gets to the report with all N tickers processed.
C9_SequentialCompleteScan ==
    /\ Len(fetchLog) <= Len(tickers)
    /\ fetchLog = SubSeq(tickers, 1, Len(fetchLog))
    /\ (progress # <<>>) => progress = <<i, Len(tickers)>>
    /\ Stopped => (fetchLog = tickers /\ i = Len(tickers))

\* The part of C9 that does not depend on the run finishing: calls are in
\* universe order, at most one per ticker, one at a time, and the progress
\* follows them.
ScanInOrder ==
    /\ Len(fetchLog) <= Len(tickers)
    /\ fetchLog = SubSeq(tickers, 1, Len(fetchLog))
    /\ Len(fetchLog) \in {i, i + 1}
    /\ (progress # <<>>) => progress = <<i, Len(tickers)>>
    /\ (pc = "done") => (fetchLog = tickers /\ i = Len(tickers))

\* C10: undervalued and growth are any-of: one clause that holds is enough
\* when the other fields are absent or miss their thresholds, and a trailing
\* P/E of 10 under max_pe = 18, or an earnings growth above 8 %, is enough
\* whatever the other two fields hold.
Harmless(x) == x.k # "str"

C10_AnyOf ==
    (pc \in {"screen", "screened"}) =>
        /\ (data.TrailingPE = Num(1000) /\ max_pe = 1800)
              => undervalued(data) = "True"
        /\ TrailingClause(data) = "True" => undervalued(data) = "True"
        /\ (ForwardClause(data) = "True" /\ Harmless(data.TrailingPE))
              => undervalued(data) = "True"
        /\ (PegClause(data) = "True" /\ Harmless(data.TrailingPE)
              /\ Harmless(data.ForwardPE))
              => undervalued(data) = "True"
        /\ (data.EarningsGrowth.k = "num" /\ data.EarningsGrowth.v > 800)
              => growth(data) = "True"
        /\ (RevenueClause(data) = "True" /\ Harmless(data.EarningsGrowth))
              => growth(data) = "True"
        /\ (UpsideClause(data) = "True" /\ Harmless(data.EarningsGrowth)
              /\ Harmless(data.RevenueGrowth))
              => growth(data) = "True"

C10_Witness ==
    /\ pc = "screened"
    /\ data.TrailingPE = Num(1000) /\ max_pe = 1800
    /\ data.ForwardPE = Str
    /\ data.PEGRatio = Num(500)
    /\ screen.undervalued = "True"

====
